---- MODULE Spec2Model ----
(***************************************************************************)
(* Worker-pool image conversion of pubby-club/emojis.                      *)
(*                                                                         *)
(*   build_webp.mjs      main thread: configuration, queue inputFiles,     *)
(*                       counters, fork()/next()/progress(); worker        *)
(*                       thread: convert() and its message handler         *)
(*   convert/index.mjs   the PNG variant of the same pool (files.pop())    *)
(*   convert/worker.mjs  its worker                                        *)
(*                                                                         *)
(*   download script    (GitHub SVG downloader) the extraction of the zip  *)
(*                       entries and the final Success / Failed lines      *)
(*                                                                         *)
(* File names and paths are sequences of tokens, e.g. <<"a", ".svg">>, so  *)
(* that endsWith, basename and join compute on the name.                   *)
(***************************************************************************)
EXTENDS Integers, Sequences, FiniteSets, TLC

\* ---------------------------------------------------------------- bounds
MaxFiles == 3
MaxCores == 2

MaxSources == 2
MaxEntries == 2

Workers == 1..MaxCores

\* Directory entries readdir() may return.
Names ==
  { <<"a", ".svg">>, <<"b", ".svg">>, <<"a", ".svg", ".svg">>, <<"a", ".txt">> }

\* Values of process.env.OUTPUT_SIZE and process.env.OUTPUT_OPTIONS.
SizeEnv == {"unset", "64", "0", "abc"}
OptionsEnv == {"unset", "{\"quality\":80}", "{quality"}

Undefined == <<"undefined">>
NoMsg == [kind |-> "none"]
NaN == -1000
NoSummary == [kind |-> "none"]

VARIABLES
  script,      \* which entry script runs: "build_webp" or "convert"
  env,         \* process.env: [OUTPUT_SIZE, OUTPUT_OPTIONS]
  cpus,        \* os.cpus().length
  dir,         \* what readdir() returns
  badInputs,   \* file names whose conversion fails in the encoder
  pc,          \* main thread: "config", "ready", "running", "done",
               \*              "ended", "failed"
  outputSize,  \* build_webp.mjs: outputSize
  inputFiles,  \* build_webp.mjs: inputFiles / convert/index.mjs: files
  total, success, failed, errors,
  worker,      \* per worker: "none", "running", "terminated", "exited",
               \*             "errored"
  inbox,       \* message posted to the worker, not yet handled
  outbox,      \* message posted by the worker, not yet handled
  promise,     \* the promise fork() returned: "none", "pending",
               \*                              "resolved", "rejected"
  posted,      \* history: every worker.postMessage(), in order
  results,     \* history: every argument progress() received, in order
  shown,       \* the summary the console shows: what progress() logged last
  files,       \* downloader: per source, the selected zip entries
  dlpc,        \* downloader: "off", "extract", "awaiting", "printed"
  dlSuccess,   \* downloader: success
  dlFailed,    \* downloader: failed
  dlPending,   \* downloader: entries whose symlink() has not settled
  dlPrinted    \* downloader: the counts the final lines printed

vars ==
  << script, env, cpus, dir, badInputs, pc, outputSize, inputFiles, total,
     success, failed, errors, worker, inbox, outbox, promise, posted, results,
     shown, files, dlpc, dlSuccess, dlFailed, dlPending, dlPrinted >>

\* ------------------------------------------------------- pure functions
\* build_webp.mjs isSvgFile / convert/index.mjs filter callback
isSvgFile(file) == Len(file) > 0 /\ file[Len(file)] = ".svg"

\* Number(process.env.OUTPUT_SIZE ?? 32)
ParseSize(s) ==
  CASE s = "unset" -> 32
    [] s = "64" -> 64
    [] s = "0" -> 0
    [] OTHER -> NaN

\* JSON.parse(process.env.OUTPUT_OPTIONS) throws
OptionsMalformed(s) == s = "{quality"

\* sharp(...).resize(size, size, ...) accepts positive integers only
ValidSize(n) == n > 0

\* path.basename(filename, ext): the suffix is cut off, also when it is the
\* whole name (basename(".svg", ".svg") is "")
basename(filename, ext) ==
  IF Len(filename) > 0 /\ filename[Len(filename)] = ext
  THEN SubSeq(filename, 1, Len(filename) - 1)
  ELSE filename

\* path.join(d, name)
join(d, name) == <<d, "/">> \o name

\* convert/worker.mjs: file.replace(".svg", ".png") replaces the first match
RECURSIVE replaceFirst(_, _, _)
replaceFirst(file, from, to) ==
  IF file = << >> THEN << >>
  ELSE IF Head(file) = from THEN <<to>> \o Tail(file)
  ELSE <<Head(file)>> \o replaceFirst(Tail(file), from, to)

\* ------------------------------------------------------------ the queue
Truthy(filename) == filename # Undefined /\ filename # << >>

\* The part of the main thread's state that fork() and next() touch.
Pool ==
  [ inputFiles |-> inputFiles, worker |-> worker, inbox |-> inbox,
    promise |-> promise, posted |-> posted ]

\* next() that takes inputFiles.pop() instead of inputFiles.shift()
nextPop(st, w) ==
  LET n == Len(st.inputFiles)
      filename == IF n = 0 THEN Undefined ELSE st.inputFiles[n]
      rest == IF n = 0 THEN << >> ELSE SubSeq(st.inputFiles, 1, n - 1)
      msg == [ kind |-> "item",
               input |-> join("svg", filename),
               output |-> join("webp", basename(filename, ".svg") \o <<".webp">>) ]
  IN IF Truthy(filename)
     THEN [st EXCEPT !.inputFiles = rest,
                     !.inbox[w] = msg,
                     !.posted = Append(@, [worker |-> w, file |-> filename])]
     ELSE [st EXCEPT !.inputFiles = rest, !.worker[w] = "terminated"]

\* next() that reads inputFiles[0] without removing it
nextPeek(st, w) ==
  LET filename == IF st.inputFiles = << >> THEN Undefined
                  ELSE Head(st.inputFiles)
  IN IF Truthy(filename)
     THEN [st EXCEPT !.inbox[w] =
                       [ kind |-> "item",
                         input |-> join("svg", filename),
                         output |-> join("webp", basename(filename, ".svg") \o <<".webp">>) ],
                     !.posted = Append(@, [worker |-> w, file |-> filename])]
     ELSE [st EXCEPT !.worker[w] = "terminated"]

\* next() that calls inputFiles.shift() once in the test and once in the body
nextShiftTwice(st, w) ==
  LET tested == IF st.inputFiles = << >> THEN Undefined
                ELSE Head(st.inputFiles)
      rest1 == IF st.inputFiles = << >> THEN << >> ELSE Tail(st.inputFiles)
      filename == IF rest1 = << >> THEN Undefined ELSE Head(rest1)
      rest2 == IF rest1 = << >> THEN << >> ELSE Tail(rest1)
  IN IF Truthy(tested)
     THEN [st EXCEPT !.inputFiles = rest2,
                     !.inbox[w] =
                       [ kind |-> "item",
                         input |-> join("svg", filename),
                         output |-> join("webp", basename(filename, ".svg") \o <<".webp">>) ],
                     !.posted = Append(@, [worker |-> w, file |-> filename])]
     ELSE [st EXCEPT !.inputFiles = rest1, !.worker[w] = "terminated"]

\* next() without the else branch: the worker is never terminated
nextNoTerminate(st, w) ==
  LET filename == IF st.inputFiles = << >> THEN Undefined
                  ELSE Head(st.inputFiles)
      rest == IF st.inputFiles = << >> THEN << >> ELSE Tail(st.inputFiles)
      msg == [ kind |-> "item",
               input |-> join("svg", filename),
               output |-> join("webp", basename(filename, ".svg") \o <<".webp">>) ]
  IN IF Truthy(filename)
     THEN [st EXCEPT !.inputFiles = rest,
                     !.inbox[w] = msg,
                     !.posted = Append(@, [worker |-> w, file |-> filename])]
     ELSE [st EXCEPT !.inputFiles = rest]

\* build_webp.mjs next(): inputFiles.shift(), post or terminate
next(st, w) ==
  LET filename == IF st.inputFiles = << >> THEN Undefined
                  ELSE Head(st.inputFiles)
      rest == IF st.inputFiles = << >> THEN << >> ELSE Tail(st.inputFiles)
      msg == [ kind |-> "item",
               input |-> join("svg", filename),
               output |-> join("webp", basename(filename, ".svg") \o <<".webp">>) ]
  IN IF Truthy(filename)
     THEN [st EXCEPT !.inputFiles = rest,
                     !.inbox[w] = msg,
                     !.posted = Append(@, [worker |-> w, file |-> filename])]
     ELSE [st EXCEPT !.inputFiles = rest, !.worker[w] = "terminated"]

\* convert/index.mjs next(): files.pop(), post or terminate
nextPng(st, w) ==
  LET n == Len(st.inputFiles)
      file == IF n = 0 THEN Undefined ELSE st.inputFiles[n]
      rest == IF n = 0 THEN << >> ELSE SubSeq(st.inputFiles, 1, n - 1)
      msg == [ kind |-> "item", input |-> file, output |-> Undefined ]
  IN IF Truthy(file)
     THEN [st EXCEPT !.inputFiles = rest,
                     !.inbox[w] = msg,
                     !.posted = Append(@, [worker |-> w, file |-> file])]
     ELSE [st EXCEPT !.inputFiles = rest, !.worker[w] = "terminated"]

\* fork() that ends with next() twice
forkTwice(st, w) ==
  next(next([st EXCEPT !.worker[w] = "running", !.promise[w] = "pending"], w), w)

\* build_webp.mjs fork(): new Worker, handlers, first next()
fork(st, w) ==
  next([st EXCEPT !.worker[w] = "running", !.promise[w] = "pending"], w)

\* convert/index.mjs loop body: new Worker, handler, first next()
forkPng(st, w) == nextPng([st EXCEPT !.worker[w] = "running"], w)

\* Array.from({ length: cores }, fork) / for (i = 0; i < cores; i++)
RECURSIVE ForkAll(_, _, _)
ForkAll(st, i, cores) ==
  IF i > cores THEN st
  ELSE ForkAll(IF script = "build_webp" THEN fork(st, i) ELSE forkPng(st, i),
               i + 1, cores)

\* Promise.all(...) over the fork() promises of the spawned workers
AllResolved(pr, cores) == \A w \in 1..cores : pr[w] = "resolved"

\* ------------------------------------------------------- the aggregator
Agg == [ total |-> total, success |-> success, failed |-> failed,
         errors |-> errors, results |-> results, shown |-> shown ]

\* build_webp.mjs progress(), lines 99-109: console.clear() and the logged
\* Total / Success / Failed / Remaining lines and error messages
Render(agg) ==
  [ kind |-> "summary", total |-> agg.total, success |-> agg.success,
    failed |-> agg.failed, remaining |-> agg.total - agg.success - agg.failed,
    errors |-> agg.errors ]

\* progress() without the else: success++ runs for failures too
progressNoElse(agg, args) ==
  LET counted ==
        IF args.err # "none"
        THEN [agg EXCEPT !.failed = @ + 1, !.success = @ + 1,
                         !.errors = Append(@, args.err),
                         !.results = Append(@, args)]
        ELSE [agg EXCEPT !.success = @ + 1, !.results = Append(@, args)]
  IN [counted EXCEPT !.shown = Render(counted)]

\* progress() without errors.push(err)
progressDropError(agg, args) ==
  LET counted ==
        IF args.err # "none"
        THEN [agg EXCEPT !.failed = @ + 1, !.results = Append(@, args)]
        ELSE [agg EXCEPT !.success = @ + 1, !.results = Append(@, args)]
  IN [counted EXCEPT !.shown = Render(counted)]

\* build_webp.mjs progress()
progress(agg, args) ==
  LET counted ==
        IF args.err # "none"
        THEN [agg EXCEPT !.failed = @ + 1, !.errors = Append(@, args.err),
                         !.results = Append(@, args)]
        ELSE [agg EXCEPT !.success = @ + 1, !.results = Append(@, args)]
  IN [counted EXCEPT !.shown = Render(counted)]

\* ------------------------------------------------------------ the worker
\* build_webp.mjs convert(): the outcome of sharp for one item
ConvertOk(args) ==
  /\ ValidSize(outputSize)
  /\ \A f \in badInputs : args.input # join("svg", f)

\* the catch branch posting the error under another key: { error: err }
WorkerReplyErrKey(args) ==
  [ kind |-> "result", err |-> "none",
    input |-> IF ConvertOk(args) THEN args.input ELSE Undefined,
    output |-> IF ConvertOk(args) THEN args.output ELSE Undefined,
    info |-> IF ConvertOk(args) THEN "info" ELSE "undefined" ]

\* the handler without its catch branch: a failed conversion posts nothing
WorkerReplyNoCatch(args) ==
  IF ConvertOk(args)
  THEN [ kind |-> "result", err |-> "none", input |-> args.input,
         output |-> args.output, info |-> "info" ]
  ELSE NoMsg

\* build_webp.mjs parentPort.on("message"): the message the worker posts
WorkerReply(args) ==
  IF ConvertOk(args)
  THEN [ kind |-> "result", err |-> "none", input |-> args.input,
         output |-> args.output, info |-> "info" ]
  ELSE [ kind |-> "result",
         err |-> IF ValidSize(outputSize) THEN "EncoderError" ELSE "InvalidSize",
         input |-> Undefined, output |-> Undefined, info |-> "undefined" ]

\* convert/worker.mjs: exec callback posts true whatever err is
WorkerReplyPng(file) ==
  [ kind |-> "true", err |-> "none", input |-> Undefined,
    output |-> replaceFirst(file, ".svg", ".png"), info |-> "undefined" ]

\* ------------------------------------------------------------------ Init
RECURSIVE Injective(_)
Injective(s) ==
  \/ Len(s) <= 1
  \/ /\ \A i \in 2..Len(s) : s[i] # s[1]
     /\ Injective(Tail(s))

Listings ==
  UNION { { s \in [1..n -> Names] : Injective(s) } : n \in 0..MaxFiles }

Init ==
  /\ script \in {"build_webp", "convert"}
  /\ env \in [OUTPUT_SIZE : SizeEnv, OUTPUT_OPTIONS : OptionsEnv]
  /\ script = "convert" =>
       env = [OUTPUT_SIZE |-> "unset", OUTPUT_OPTIONS |-> "unset"]
  /\ cpus \in 0..MaxCores
  /\ dir \in Listings
  /\ badInputs \in SUBSET { dir[i] : i \in 1..Len(dir) }
  /\ \A f \in badInputs : isSvgFile(f)
  /\ pc = "config"
  /\ outputSize = 0
  /\ inputFiles = << >>
  /\ total = 0 /\ success = 0 /\ failed = 0 /\ errors = << >>
  /\ worker = [w \in Workers |-> "none"]
  /\ inbox = [w \in Workers |-> NoMsg]
  /\ outbox = [w \in Workers |-> NoMsg]
  /\ promise = [w \in Workers |-> "none"]
  /\ posted = << >>
  /\ results = << >>
  /\ shown = NoSummary
  /\ files = << >>
  /\ dlpc = "off"
  /\ dlSuccess = 0 /\ dlFailed = 0
  /\ dlPending = {}
  /\ dlPrinted = NoSummary

\* --------------------------------------------------------------- actions
inputVars == << script, env, cpus, dir, badInputs >>
dlVars == << files, dlpc, dlSuccess, dlFailed, dlPending, dlPrinted >>
aggVars == << total, success, failed, errors, results, shown >>
poolVars == << inputFiles, worker, inbox, promise, posted >>

\* build_webp.mjs lines 41-77 / convert/index.mjs lines 6-16: read the
\* configuration and the directory, up to the awaited readdir().
Configure ==
  /\ pc = "config"
  /\ IF script = "build_webp" /\ OptionsMalformed(env.OUTPUT_OPTIONS)
     THEN /\ pc' = "failed"
          /\ outputSize' = ParseSize(env.OUTPUT_SIZE)
          /\ UNCHANGED inputFiles
     ELSE /\ pc' = "ready"
          /\ outputSize' = IF script = "build_webp"
                           THEN ParseSize(env.OUTPUT_SIZE) ELSE 32
          /\ inputFiles' = SelectSeq(dir, isSvgFile)
  /\ UNCHANGED << dlVars, inputVars, aggVars, worker, inbox, outbox, promise, posted >>

\* build_webp.mjs lines 83-151 / convert/index.mjs lines 18-38: the
\* counters, then all forks in one synchronous run.
Spawn ==
  /\ pc = "ready"
  /\ LET st == ForkAll(Pool, 1, cpus)
     IN /\ inputFiles' = st.inputFiles
        /\ worker' = st.worker
        /\ inbox' = st.inbox
        /\ promise' = st.promise
        /\ posted' = st.posted
        /\ pc' = IF cpus > 0 THEN "running"
                 ELSE IF script = "build_webp" THEN "done" ELSE "ended"
  /\ total' = Len(inputFiles)
  /\ success' = 0 /\ failed' = 0 /\ errors' = << >>
  /\ UNCHANGED << dlVars, inputVars, outputSize, outbox, results, shown >>

\* Worker thread, parentPort.on("message"): convert, then post the result.
WorkerOnMessage(w) ==
  /\ pc = "running"
  /\ worker[w] = "running"
  /\ inbox[w] # NoMsg
  /\ inbox' = [inbox EXCEPT ![w] = NoMsg]
  /\ outbox' = [outbox EXCEPT ![w] =
       IF script = "build_webp" THEN WorkerReply(inbox[w])
       ELSE WorkerReplyPng(inbox[w].input)]
  /\ UNCHANGED << dlVars, inputVars, aggVars, pc, outputSize, inputFiles, worker,
                  promise, posted >>

\* Main thread, worker.on("message"): progress(args); next()
\* (convert/index.mjs: next() only).
OnMessage(w) ==
  /\ pc = "running"
  /\ worker[w] = "running"
  /\ outbox[w] # NoMsg
  /\ outbox' = [outbox EXCEPT ![w] = NoMsg]
  /\ LET agg == IF script = "build_webp" THEN progress(Agg, outbox[w]) ELSE Agg
         st == IF script = "build_webp" THEN next(Pool, w) ELSE nextPng(Pool, w)
     IN /\ success' = agg.success
        /\ failed' = agg.failed
        /\ errors' = agg.errors
        /\ results' = agg.results
        /\ shown' = agg.shown
        /\ inputFiles' = st.inputFiles
        /\ worker' = st.worker
        /\ inbox' = st.inbox
        /\ promise' = st.promise
        /\ posted' = st.posted
  /\ UNCHANGED << dlVars, inputVars, pc, outputSize, total >>

\* worker.on("exit", resolve), after worker.terminate(); the continuation of
\* the awaited Promise.all prints "Done!" once every promise is resolved.
onExit(pr, w) == [pr EXCEPT ![w] = IF @ = "pending" THEN "resolved" ELSE @]

WorkerExit(w) ==
  /\ pc = "running"
  /\ worker[w] = "terminated"
  /\ worker' = [worker EXCEPT ![w] = "exited"]
  /\ IF script = "build_webp"
     THEN /\ promise' = onExit(promise, w)
          /\ pc' = IF AllResolved(promise', cpus) THEN "done" ELSE pc
     ELSE /\ promise' = promise
          /\ pc' = IF \A v \in 1..cpus : worker'[v] = "exited"
                   THEN "ended" ELSE pc
  /\ UNCHANGED << dlVars, inputVars, aggVars, outputSize, inputFiles, inbox, outbox,
                  posted >>

\* worker.on("error", reject): the worker's execution context fails.  The
\* rejection passes through Promise.all and the top-level await and ends the
\* process (convert/index.mjs has no listener: the event itself throws).
\* worker.on("error", resolve)
onErrorResolve(pr, w) ==
  [pr EXCEPT ![w] = IF @ = "pending" THEN "resolved" ELSE @]

onError(pr, w) == [pr EXCEPT ![w] = IF @ = "pending" THEN "rejected" ELSE @]

PoolOutcome(pr, cores) ==
  IF \E w \in 1..cores : pr[w] = "rejected" THEN "failed"
  ELSE IF AllResolved(pr, cores) THEN "done"
  ELSE "running"

WorkerError(w) ==
  /\ pc = "running"
  /\ worker[w] = "running"
  /\ worker' = [worker EXCEPT ![w] = "errored"]
  /\ IF script = "build_webp"
     THEN /\ promise' = onError(promise, w)
          /\ pc' = PoolOutcome(promise', cpus)
     ELSE /\ promise' = promise
          /\ pc' = "failed"
  /\ UNCHANGED << dlVars, inputVars, aggVars, outputSize, inputFiles, inbox, outbox,
                  posted >>

Next ==
  \/ Configure
  \/ Spawn
  \/ \E w \in Workers : WorkerOnMessage(w)
  \/ \E w \in Workers : OnMessage(w)
  \/ \E w \in Workers : WorkerExit(w)
  \/ \E w \in Workers : WorkerError(w)

Spec == Init /\ [][Next]_vars

\* The event loops of the main thread and of the workers run every handler
\* whose event is pending; a worker's failure is never obliged to happen.
\* The environments kept for the fair runs: the defaults, an invalid size
\* and a malformed options payload ("64" runs like the default, "abc" like
\* "0", a well-formed payload like none).
LiveEnv ==
  { [OUTPUT_SIZE |-> "unset", OUTPUT_OPTIONS |-> "unset"],
    [OUTPUT_SIZE |-> "0", OUTPUT_OPTIONS |-> "unset"],
    [OUTPUT_SIZE |-> "unset", OUTPUT_OPTIONS |-> "{quality"] }

LiveInit == Init /\ env \in LiveEnv

FairSpec ==
  /\ LiveInit
  /\ [][Next]_vars
  /\ WF_vars(Configure)
  /\ WF_vars(Spawn)
  /\ \A w \in Workers :
       /\ WF_vars(WorkerOnMessage(w))
       /\ WF_vars(OnMessage(w))
       /\ WF_vars(WorkerExit(w))

\* ------------------------------------------------- the GitHub downloader
\* A selected zip entry: the high 16 bits of entry.header.attr (attr >>> 16,
\* the Unix mode) and whether writing it succeeds.
S_IFLNK == 40960
S_IFMT == 61440
RegularMode == 33188
SymlinkMode == 41471
Modes == { RegularMode, SymlinkMode }
Entries == [ mode : Modes, ok : BOOLEAN ]

\* isSymbolicLink(attr): ((attr >>> 16) & S_IFMT) === S_IFLNK; S_IFMT is the
\* four bits 12..15 of the mode
isSymbolicLink(mode) == ((mode \div 4096) % 16) * 4096 = S_IFLNK

EntryLists == UNION { [1..n -> Entries] : n \in 0..MaxEntries }
FileLists == UNION { [1..n -> EntryLists] : n \in 0..MaxSources }
AllEntries(fs) ==
  { <<i, j>> \in (1..MaxSources) \X (1..MaxEntries) :
      i <= Len(fs) /\ j <= Len(fs[i]) }
Entry(fs, e) == fs[e[1]][e[2]]

\* The state after the output directory is prepared (line 222).
DlInit ==
  /\ script = "download"
  /\ env = [OUTPUT_SIZE |-> "unset", OUTPUT_OPTIONS |-> "unset"]
  /\ cpus = 0
  /\ dir = << >>
  /\ badInputs = {}
  /\ pc = "off"
  /\ outputSize = 0
  /\ inputFiles = << >>
  /\ total = 0 /\ success = 0 /\ failed = 0 /\ errors = << >>
  /\ worker = [w \in Workers |-> "none"]
  /\ inbox = [w \in Workers |-> NoMsg]
  /\ outbox = [w \in Workers |-> NoMsg]
  /\ promise = [w \in Workers |-> "none"]
  /\ posted = << >>
  /\ results = << >>
  /\ shown = NoSummary
  /\ files \in FileLists
  /\ dlpc = "extract"
  /\ dlSuccess = 0 /\ dlFailed = 0
  /\ dlPending = {}
  /\ dlPrinted = NoSummary

poolAll ==
  << inputVars, aggVars, pc, outputSize, inputFiles, worker, inbox, outbox,
     promise, posted >>

\* Lines 225-246, the synchronous run of files.flatMap(async ...): every
\* entry callback runs up to its first await.  A regular entry is extracted
\* and counted at once; a symbolic link stops at await symlink(...).
DlWrite ==
  /\ dlpc = "extract"
  /\ LET all == AllEntries(files)
         regular == { e \in all : ~isSymbolicLink(Entry(files, e).mode) }
     IN /\ dlPending' = all \ regular
        /\ dlSuccess' =
             dlSuccess + Cardinality({ e \in regular : Entry(files, e).ok })
        /\ dlFailed' =
             dlFailed + Cardinality({ e \in regular : ~Entry(files, e).ok })
  /\ dlpc' = "awaiting"
  /\ UNCHANGED << poolAll, files, dlPrinted >>

\* Lines 248-250: the continuation of await Promise.all(...).  The array
\* holds one promise per source (the outer async callback), each resolved
\* with an array of entry promises that nothing awaits.
DlPrint ==
  /\ dlpc = "awaiting"
  /\ dlPrinted' = [ kind |-> "counts", success |-> dlSuccess, failed |-> dlFailed ]
  /\ dlpc' = "printed"
  /\ UNCHANGED << poolAll, files, dlSuccess, dlFailed, dlPending >>

\* Lines 232-243: symlink() settles; success++ or failed++.
DlSymlinkSettled(e) ==
  /\ dlpc \in {"awaiting", "printed"}
  /\ e \in dlPending
  /\ dlPending' = dlPending \ {e}
  /\ IF Entry(files, e).ok
     THEN dlSuccess' = dlSuccess + 1 /\ dlFailed' = dlFailed
     ELSE dlFailed' = dlFailed + 1 /\ dlSuccess' = dlSuccess
  /\ UNCHANGED << poolAll, files, dlpc, dlPrinted >>

DlNext ==
  \/ DlWrite
  \/ DlPrint
  \/ \E e \in (1..MaxSources) \X (1..MaxEntries) : DlSymlinkSettled(e)

DownloadSpec == DlInit /\ [][DlNext]_vars

\* ================================================================ claims
Webp == script = "build_webp"
Started == pc \in {"running", "done", "ended"} \/ \E w \in Workers : worker[w] # "none"
InFlight(w) == inbox[w] # NoMsg \/ outbox[w] # NoMsg
Spawned == { w \in Workers : worker[w] # "none" }

\* C1: when the pool completes ("Done!" is reached), success + failed equals
\* the number of enqueued items and inputFiles is empty.
C1_PoolCompletes ==
  (Webp /\ pc = "done") => (success + failed = total /\ inputFiles = << >>)

\* C2: in every reachable state of a dispatcher run, success + failed <= total.
C2_CountBound == Webp => success + failed <= total

C2_Witness ==
  /\ Webp /\ pc = "done"
  /\ success >= 1 /\ failed >= 1 /\ success + failed = total

\* C3 as stated: success + failed == total exactly when the queue is empty
\* and every spawned worker has emitted its exit event.
C3_Original ==
  (Webp /\ pc \in {"running", "done"}) =>
    ( success + failed = total
      <=> (inputFiles = << >> /\ \A w \in 1..cpus : worker[w] = "exited") )

\* C3 amended: after the workers are spawned, success + failed == total
\* exactly when the queue is empty and no worker holds an item whose result
\* is not yet recorded; the exit events of the workers come later.
C3_Amended ==
  (Webp /\ pc \in {"running", "done", "failed"} /\ Started) =>
    ( success + failed = total
      <=> (inputFiles = << >> /\ \A w \in Workers : ~InFlight(w)) )

C3_Witness ==
  /\ Webp /\ pc = "running" /\ total >= 2
  /\ success + failed = total
  /\ \E w \in Workers : worker[w] = "terminated"

\* C4: each enqueued item is removed from the queue and posted to a worker
\* at most once: no two postMessage calls carry the same file, no two
\* workers hold the same item, no two recorded results name the same input.
C4_AtMostOnce ==
  /\ \A i, j \in 1..Len(posted) : i # j => posted[i].file # posted[j].file
  /\ \A i \in 1..Len(posted) : \A k \in 1..Len(inputFiles) :
       posted[i].file # inputFiles[k]
  /\ \A w, v \in Workers :
       (w # v /\ inbox[w] # NoMsg /\ inbox[v] # NoMsg)
         => inbox[w].input # inbox[v].input
  /\ \A i, j \in 1..Len(results) :
       (i # j /\ results[i].input # Undefined)
         => results[i].input # results[j].input

C4_Witness ==
  /\ Len(posted) >= 3
  /\ \E i, j \in 1..Len(posted) : posted[i].worker # posted[j].worker
  /\ Len(results) >= 2
  /\ \E i \in 1..Len(results) : results[i].input # Undefined

\* C5: every result progress() receives carries the input and output path of
\* the item it was produced from, failures included.
C5_ResultCarriesItem ==
  \A i \in 1..Len(results) :
    \E j \in 1..Len(posted) :
      /\ results[i].input = join("svg", posted[j].file)
      /\ results[i].output =
           join("webp", basename(posted[j].file, ".svg") \o <<".webp">>)

\* C6: with at least one worker and a conversion that fails for exactly one
\* input, the completed run has failed = 1, success = N - 1 and one entry in
\* errors, and the worker that reported the failure is sent the next item
\* when one is left.
OneFails == ValidSize(outputSize) /\ Cardinality(badInputs) = 1

C6_OneFailure ==
  [][ (Webp /\ OneFails /\ cpus >= 1) =>
        /\ pc' = "done" =>
             (failed' = 1 /\ success' = total' - 1 /\ Len(errors') = 1)
        /\ \A w \in Workers :
             (outbox[w] # NoMsg /\ outbox'[w] = NoMsg /\ outbox[w].err # "none"
               /\ inputFiles # << >>)
             => (worker'[w] = "running" /\ inbox'[w] # NoMsg) ]_vars

C6_Witness ==
  /\ Webp /\ OneFails /\ pc = "done" /\ total >= 2 /\ failed = 1
  /\ \E i, j \in 1..Len(posted) :
       /\ i < j
       /\ posted[i].file \in badInputs
       /\ posted[j].worker = posted[i].worker

\* C7: with a conversion that fails for every input, the run with N items
\* completes with success = 0 and failed = N.
AllFail ==
  \/ ~ValidSize(outputSize)
  \/ \A i \in 1..Len(dir) : isSvgFile(dir[i]) => dir[i] \in badInputs

C7_AllFail ==
  (Webp /\ AllFail /\ pc = "done") => (success = 0 /\ failed = total)

\* C8: at least one worker is spawned whatever the reported CPU count, so a
\* run that ends has drained the queue.
C8_MinOneWorker ==
  (pc \in {"running", "done", "ended"}) =>
    /\ Spawned # {}
    /\ pc \in {"done", "ended"} => inputFiles = << >>

\* C9: an invalid OUTPUT_SIZE or a malformed OUTPUT_OPTIONS fails the run
\* before any worker is spawned and before any item is dispatched.
ConfigInvalid ==
  /\ Webp
  /\ \/ ~ValidSize(ParseSize(env.OUTPUT_SIZE))
     \/ OptionsMalformed(env.OUTPUT_OPTIONS)

C9_ConfigFailsFast ==
  ConfigInvalid => (Spawned = {} /\ posted = << >> /\ pc \in {"config", "failed"})

\* C10: once a worker has emitted a fatal error event, Promise.all is
\* rejected, the run has failed and "Done!" is never reached.
C10_FatalFailsRun ==
  [][ (Webp /\ \E w \in Workers : worker'[w] = "errored") =>
        /\ \E w \in Workers : promise'[w] = "rejected"
        /\ pc' = "failed"
        /\ pc # "done" ]_vars

C10_Witness ==
  /\ Webp /\ pc = "failed"
  /\ \E w \in Workers : worker[w] = "errored"
  /\ \E v \in Workers : worker[v] = "exited"

\* C11: by the time the run completes, a summary showing the final total,
\* success and failed values and the error list has been rendered, also when
\* there are no items.
C11_FinalSummary ==
  (Webp /\ pc = "done") =>
    /\ shown # NoSummary
    /\ shown.total = total
    /\ shown.success = success
    /\ shown.failed = failed
    /\ shown.errors = errors

\* The items as enqueued: the filtered directory listing.
Enqueued == SelectSeq(dir, isSvgFile)
Fails(f) == f \in badInputs \/ ~ValidSize(outputSize)

\* C12 as stated: with one worker the items are processed, and their results
\* recorded, in the order they were enqueued (the order of the listing).
C12_Original ==
  cpus = 1 =>
    \A i \in 1..Len(posted) : posted[i].file = Enqueued[i]

\* C12 amended: with one worker, build_webp.mjs dispatches the items and
\* records their results in the order of the listing; convert/index.mjs
\* takes files.pop() and processes the items in the reverse order.
C12_Amended ==
  cpus = 1 =>
    IF Webp
    THEN /\ \A i \in 1..Len(posted) : posted[i].file = Enqueued[i]
         /\ Len(results) <= Len(posted)
         /\ \A i \in 1..Len(results) :
              /\ results[i].err # "none" <=> Fails(Enqueued[i])
              /\ results[i].err = "none" =>
                   results[i].input = join("svg", Enqueued[i])
    ELSE \A i \in 1..Len(posted) :
           posted[i].file = Enqueued[Len(Enqueued) + 1 - i]

C12_Witness ==
  /\ Webp /\ cpus = 1 /\ pc = "done"
  /\ Len(results) = 3
  /\ results[1].err # "none" /\ results[2].err = "none"

\* C13: with no .svg file no item is ever dispatched, every spawned worker is
\* terminated on its first claim, every fork() promise resolves and the run
\* completes with total = 0, success = 0 and failed = 0.
C13_EmptyRun ==
  /\ [] ( (Webp /\ pc \in {"running", "done"} /\ Enqueued = << >>) =>
            /\ posted = << >>
            /\ total = 0 /\ success = 0 /\ failed = 0
            /\ \A w \in 1..cpus :
                 /\ worker[w] \in {"terminated", "exited"}
                 /\ promise[w] \in {"pending", "resolved"} )
  /\ ( (Webp /\ pc = "ready" /\ Enqueued = << >>)
         ~> ( /\ pc = "done"
              /\ total = 0 /\ success = 0 /\ failed = 0
              /\ \A w \in 1..cpus : promise[w] = "resolved" ) )

C13_Witness ==
  /\ Webp /\ pc = "done" /\ Enqueued = << >> /\ Len(dir) >= 1
  /\ cpus >= 2
  /\ \A w \in 1..cpus : worker[w] = "exited"

\* C15: under fair scheduling a run in which no worker fails ends with every
\* worker exited and the queue drained when there is at least one worker; the
\* supervisor never completes while a spawned worker has not exited.
C15_Termination ==
  /\ [] ( pc \in {"done", "ended"} => \A w \in 1..cpus : worker[w] = "exited" )
  /\ <> ( \/ pc = "failed"
          \/ /\ pc \in {"done", "ended"}
             /\ \A w \in 1..cpus : worker[w] = "exited"
             /\ cpus >= 1 => inputFiles = << >> )

C15_Witness ==
  /\ script = "convert" /\ pc = "ended" /\ cpus >= 2
  /\ Len(posted) >= 3
  /\ \A w \in 1..cpus : worker[w] = "exited"

\* C14: the final aggregate of a completed run with at least one worker is a
\* function of the input set and of the per-item outcome alone, whatever the
\* interleaving of the worker messages and whatever the pool width.
ExpectedFailed ==
  Cardinality({ i \in 1..Len(Enqueued) : Fails(Enqueued[i]) })
ExpectedErrors ==
  IF ExpectedFailed = 0 THEN {}
  ELSE IF ValidSize(outputSize) THEN {"EncoderError"} ELSE {"InvalidSize"}

C14_Deterministic ==
  (Webp /\ pc = "done" /\ cpus >= 1) =>
    /\ total = Len(Enqueued)
    /\ failed = ExpectedFailed
    /\ success = Len(Enqueued) - ExpectedFailed
    /\ Len(errors) = ExpectedFailed
    /\ { errors[i] : i \in 1..Len(errors) } = ExpectedErrors

C14_Witness ==
  /\ Webp /\ pc = "done" /\ cpus >= 2
  /\ total >= 3 /\ failed = 2 /\ success >= 1
  /\ \E i, j \in 1..Len(posted) : posted[i].worker # posted[j].worker

PostedTo(seq, w) == Cardinality({ i \in 1..Len(seq) : seq[i].worker = w })
InFlightCount == Cardinality({ w \in Workers : InFlight(w) })

\* C16: a worker is sent an item only at its fork or in the step that records
\* the result of its previous item, one item per step, so it never has more
\* than one item in flight; it is terminated only with no item in flight.
C16_CausalOrder ==
  [][ \A w \in Workers :
        /\ PostedTo(posted', w) \in { PostedTo(posted, w), PostedTo(posted, w) + 1 }
        /\ PostedTo(posted', w) = PostedTo(posted, w) + 1 =>
             /\ inbox[w] = NoMsg
             /\ inbox'[w] # NoMsg /\ outbox'[w] = NoMsg
             /\ \/ worker[w] = "none"
                \/ /\ outbox[w] # NoMsg
                   /\ Webp => results' = Append(results, outbox[w])
        /\ (worker'[w] = "terminated" /\ worker[w] # "terminated") =>
             (inbox'[w] = NoMsg /\ outbox'[w] = NoMsg)
        /\ ~(inbox'[w] # NoMsg /\ outbox'[w] # NoMsg) ]_vars

C16_Witness ==
  /\ Webp /\ cpus >= 2
  /\ \E w \in Workers :
       /\ PostedTo(posted, w) >= 2
       /\ worker[w] = "terminated"
       /\ \E v \in Workers : v # w /\ InFlight(v)

\* C17: every dispatched item is recorded by exactly one progress() call,
\* which increments exactly one of success and failed: the recorded results
\* and the items still in flight add up to the dispatched items, and a
\* completed run has recorded every dispatched item.
C17_ExactlyOneRecord ==
  Webp =>
    /\ Len(results) = success + failed
    /\ Len(errors) = failed
    /\ Len(posted) = Len(results) + InFlightCount
    /\ pc = "done" => Len(results) = Len(posted)

C17_Witness ==
  /\ Webp /\ pc = "done" /\ cpus = 1
  /\ Len(posted) >= 2 /\ Len(results) = Len(posted)
  /\ failed >= 1 /\ success >= 1

\* C19: once the counters are set, total = success + failed + queued items +
\* items in flight, so the Remaining value progress() shows equals queued
\* plus in-flight items and is never negative.
C19_Conservation ==
  (Webp /\ pc # "ready") =>
    /\ total = success + failed + Len(inputFiles) + InFlightCount
    /\ total - success - failed >= 0
    /\ shown # NoSummary =>
         /\ shown.remaining = Len(inputFiles) + InFlightCount
         /\ shown.remaining >= 0

C19_Witness ==
  /\ Webp /\ pc = "running"
  /\ shown # NoSummary /\ shown.remaining >= 2
  /\ Len(inputFiles) >= 1 /\ InFlightCount >= 1

\* C18: every file that passes the .svg filter is mapped to the output with
\* the same base name and the target extension: build_webp.mjs posts
\* <outputDir>/<base>.webp, convert/worker.mjs writes <base>.png.
ExpectedBase(file) == SubSeq(file, 1, Len(file) - 1)

C18_OutputMapping ==
  \A w \in Workers :
    /\ (Webp /\ inbox[w] # NoMsg) =>
         \E j \in 1..Len(posted) :
           /\ posted[j].worker = w
           /\ inbox[w].input = join("svg", posted[j].file)
           /\ inbox[w].output =
                join("webp", ExpectedBase(posted[j].file) \o <<".webp">>)
    /\ (~Webp /\ outbox[w] # NoMsg) =>
         \E j \in 1..Len(posted) :
           /\ posted[j].worker = w
           /\ outbox[w].output = ExpectedBase(posted[j].file) \o <<".png">>

\* C20: when the downloader prints its final Success / Failed counts, every
\* selected zip entry has been written and counted: no write is pending and
\* the printed counts add up to the number of entries of all sources.
C20_AllCounted ==
  dlpc = "printed" =>
    dlPrinted.success + dlPrinted.failed = Cardinality(AllEntries(files))

====
